---- MODULE Spec2Model ----
(***************************************************************************)
(* SmartInventory demand forecasting: the model registry (MLModel rows and *)
(* DemandForecaster.save_model), the prediction service (MLService and its *)
(* point cache), the batch orchestrator (batch_predict_demand view and the *)
(* batch_predict task) and the alert engine (generate_inventory_alerts and *)
(* acknowledge_alert).                                                     *)
(*                                                                         *)
(* Every database statement, cache access and task dispatch of a handler   *)
(* is one step; statements of different requests and tasks interleave.     *)
(* Identifiers are positive integers, 0 stands for "no row" / None.        *)
(***************************************************************************)
EXTENDS Integers, Sequences, FiniteSets, TLC

(* ------------------------------ bounds --------------------------------- *)
\* concurrent retrain_model / save_model runs
MaxTrainers == 2

\* concurrent generate_inventory_alerts runs
MaxRuns == 2
\* acknowledge_alert requests (each reads a later timezone.now())
MaxAcks == 2
\* predicted_demand is a float: the model holds it as a number of
\* 1/DemandDenominator units, so that fractional demands are covered
DemandDenominator == 2

\* batch prediction jobs submitted
MaxJobs == 2

\* predict_demand requests made
MaxRequests == 3

\* histories of a pair: the age in days of the latest observation, of the
\* earliest, and the days between two observations
MaxFirstAge == 3
MaxAge == 62
MaxStride == 3

\* DataValidationError rows of an upload
MaxErrors == 12

\* days a batch job may cover: prediction dates 1..NDates (relative to today)
NDates == 2
\* batch_size of batch_predict (100 in tasks.py:54), scaled to the small
\* Cartesian products of the model
batch_size == 2

Trainers == 1..MaxTrainers
\* model names a run may be given (DemandForecaster.__init__: the caller's
\* model_name or a timestamp); the version is always "1.0"
ModelNames == 1..MaxTrainers

\* Store and Product rows (core/models.py), by store_id and sku_id
Stores == {"S1", "S2"}
Products == {"P1"}
Pairs == Stores \X Products
\* request.user of a view
Users == {"admin", "manager"}
Runs == 1..MaxRuns
JobIds == 1..MaxJobs
BatchDates == 1..NDates
\* Store.objects.filter(is_active=True) and Product.objects.filter(is_active=True)
\* in Meta.ordering (store_id, sku_id)
StoreSeq == <<"S1", "S2">>
ProductSeq == <<"P1">>
\* store_ids / sku_ids of a submission ({} stands for the empty list: all)
StoreFilters == {{}, {"S1"}}
ProductFilters == {{}}

VARIABLES
    mlmodels,      \* MLModel table: set of [id, name, is_active]
    model_files,   \* ml/models/<name>/model.joblib: name -> run that wrote it, 0 = absent
    trainer,       \* per retrain_model run: [pc, name, model_id]
    predictions,   \* ForecastPrediction table: set of rows
    salesdata,     \* SalesData: per (store, product) the row of the latest date
    alerts,        \* InventoryAlert table: set of rows
    run,           \* per generate_inventory_alerts run: its local state
    now,           \* timezone.now() as read by acknowledge_alert
    cache,         \* django cache, the prediction_<store>_<sku>_<date> keys
    reply,         \* the response of the latest predict_demand request
    features,      \* a _prepare_features_for_prediction call: its history and result
    upload,        \* an upload_status request: the upload's errors and the response
    health,        \* a model_health_check run: what it reads and what it returns
    jobs,          \* BatchPredictionJob table: id -> row (status "" = no row)
    view,          \* per job: the batch_predict_demand request that creates it
    task,          \* per job: the batch_predict task run
    alert_tasks    \* per job: generate_inventory_alerts.delay(job_id) calls made

registryVars == <<mlmodels, model_files, trainer>>
dataVars == <<predictions, salesdata>>
alertVars == <<alerts, run, now>>
batchVars == <<jobs, view, task, alert_tasks>>
vars == <<registryVars, dataVars, alertVars, cache, reply, features, upload, health, batchVars>>

(* --------------------------- model registry ---------------------------- *)
\* MLModel.objects.filter(is_active=True)
ActiveModels == {m \in mlmodels : m.is_active}

\* MLModel.objects.filter(is_active=True).first(), Meta.ordering = -training_date:
\* the most recently created active row (ids grow with training_date); 0 when none
ActiveModelId ==
    IF ActiveModels = {} THEN 0
    ELSE CHOOSE i \in {m.id : m \in ActiveModels} :
             \A m \in ActiveModels : m.id <= i

\* the id given to the next MLModel row
NextModelId == Cardinality(mlmodels) + 1

\* unique_together = ['name', 'version'] with version "1.0" in every create
NameTaken(n) == \E m \in mlmodels : m.name = n

\* retrain_model: DemandForecaster(model_name) and forecaster.train(...); train
\* raises on missing data, which ends the task with status failed
RetrainTrain(t) ==
    /\ trainer[t].pc = "idle"
    /\ \E n \in ModelNames, ok \in BOOLEAN :
          trainer' = [trainer EXCEPT ![t] =
                         [pc |-> IF ok THEN "trained" ELSE "failed",
                          name |-> n, model_id |-> 0]]
    /\ UNCHANGED <<mlmodels, model_files>>
    /\ UNCHANGED <<dataVars, alertVars, cache, reply, features, upload, health, batchVars>>

\* save_model, joblib.dump: the artifact is written to the path of the name
SaveDump(t) ==
    /\ trainer[t].pc = "trained"
    /\ model_files' = [model_files EXCEPT ![trainer[t].name] = t]
    /\ trainer' = [trainer EXCEPT ![t].pc = "dumped"]
    /\ UNCHANGED mlmodels
    /\ UNCHANGED <<dataVars, alertVars, cache, reply, features, upload, health, batchVars>>

\* the row a create of save_model inserts
NewModelRow(t) ==
    [id |-> NextModelId, name |-> trainer[t].name, is_active |-> TRUE]

\* save_model, MLModel.objects.create(..., is_active=True); IntegrityError when
\* the (name, version) pair exists
SaveCreate(t) ==
    /\ trainer[t].pc = "dumped"
    /\ IF NameTaken(trainer[t].name)
       THEN /\ trainer' = [trainer EXCEPT ![t].pc = "failed"]
            /\ UNCHANGED mlmodels
       ELSE /\ mlmodels' = mlmodels \cup {NewModelRow(t)}
            /\ trainer' = [trainer EXCEPT ![t].pc = "created",
                                          ![t].model_id = NextModelId]
    /\ UNCHANGED model_files
    /\ UNCHANGED <<dataVars, alertVars, cache, reply, features, upload, health, batchVars>>

\* the rows after filter(is_active=True).exclude(id=keep).update(is_active=False)
DeactivateOthers(keep) ==
    {IF m.is_active /\ m.id # keep THEN [m EXCEPT !.is_active = FALSE] ELSE m :
        m \in mlmodels}

\* save_model, the update statement; a database error leaves the rows as they are
SaveDeactivate(t) ==
    /\ trainer[t].pc = "created"
    /\ \E ok \in BOOLEAN :
          IF ok
          THEN /\ mlmodels' = DeactivateOthers(trainer[t].model_id)
               /\ trainer' = [trainer EXCEPT ![t].pc = "saved"]
          ELSE /\ trainer' = [trainer EXCEPT ![t].pc = "failed"]
               /\ UNCHANGED mlmodels
    /\ UNCHANGED model_files
    /\ UNCHANGED <<dataVars, alertVars, cache, reply, features, upload, health, batchVars>>

(* ----------------------------- alert engine --------------------------- *)
\* timedelta(days=30) of the lookahead window; dates are days relative to
\* timezone.now().date(), which is day 0
lookahead == 30

\* ForecastPrediction.objects.filter(prediction_date__lte=cutoff_date,
\*                                   prediction_date__gte=today)
InWindow(p) == p.prediction_date >= 0 /\ p.prediction_date <= lookahead

\* int(x) of Python for the quotient a / b, b > 0: truncation toward zero
TruncDiv(a, b) == IF a >= 0 THEN a \div b ELSE -((-a) \div b)

Max(a, b) == IF a >= b THEN a ELSE b

\* mutants of the stockout test: the safety factor 1.5 is lost; <= for <
StockoutTest_NoFactor(on_hand, d) == on_hand * DemandDenominator < d
StockoutTest_Inclusive(on_hand, d) == on_hand * 2 * DemandDenominator <= d * 3

\* current_inventory < predicted_demand * 1.5, on the demand's numerator d
StockoutTest(on_hand, d) == on_hand * 2 * DemandDenominator < d * 3

\* current_inventory > predicted_demand * 4
OverstockTest(on_hand, d) == on_hand * DemandDenominator > d * 4

\* the if / elif of generate_inventory_alerts: the branch taken
AlertBranch(on_hand, d) ==
    IF StockoutTest(on_hand, d) THEN "stockout_risk"
    ELSE IF OverstockTest(on_hand, d) THEN "overstock_risk"
    ELSE "none"

\* mutant of the stockout day count: the division by the demand is lost
DaysUntilStockout_NoDemand(on_hand, d) == Max(1, on_hand)

\* max(1, int(current_inventory / max(predicted_demand, 1)))
DaysUntilStockout(on_hand, d) ==
    Max(1, TruncDiv(on_hand * DemandDenominator, Max(d, DemandDenominator)))

\* the priority ladder of the stockout branch
StockoutPriority(days) ==
    IF days <= 3 THEN "critical"
    ELSE IF days <= 7 THEN "high"
    ELSE IF days <= 14 THEN "medium"
    ELSE "low"

\* the priority given in the defaults of get_or_create
AlertPriority(branch, on_hand, d) ==
    IF branch = "stockout_risk"
    THEN StockoutPriority(DaysUntilStockout(on_hand, d))
    ELSE "low"

\* mutant of the lookup: is_acknowledged is not among the lookup fields
Outstanding_AnyState(s, p, type) ==
    {a \in alerts : a.store = s /\ a.product = p /\ a.alert_type = type}

\* mutant of the lookup: it matches the acknowledged alerts
Outstanding_Acknowledged(s, p, type) ==
    {a \in alerts : /\ a.store = s /\ a.product = p
                    /\ a.alert_type = type /\ a.is_acknowledged}

\* the lookup of get_or_create: store, product, alert_type, is_acknowledged=False
Outstanding(s, p, type) ==
    {a \in alerts : /\ a.store = s /\ a.product = p
                    /\ a.alert_type = type /\ ~a.is_acknowledged}

NextAlertId == Cardinality(alerts) + 1

NoEval == [store |-> "", product |-> "", date |-> 0, on_hand |-> 0, demand |-> 0,
           branch |-> "", found |-> 0]

IdleRun == [pc |-> "idle", todo |-> {}, alerts_created |-> 0, last |-> NoEval]

\* generate_inventory_alerts starts: the predictions query is evaluated once,
\* when the for loop begins
GenStart(r) ==
    /\ run[r].pc = "idle"
    /\ run' = [run EXCEPT ![r].pc = "loop",
                          ![r].todo = {p \in predictions : InWindow(p)}]
    /\ UNCHANGED <<registryVars, dataVars, alerts, now, cache, reply, features, upload, health, batchVars>>

\* one iteration up to the lookup of get_or_create; Meta.ordering of
\* ForecastPrediction is prediction_date, rows of one date come in any order
GenEval(r) ==
    /\ run[r].pc = "loop"
    /\ \E p \in run[r].todo :
        /\ \A q \in run[r].todo : p.prediction_date <= q.prediction_date
        /\ LET latest_sales == salesdata[<<p.store, p.product>>]
               branch == AlertBranch(latest_sales.on_hand, p.predicted_demand)
               found == Cardinality(Outstanding(p.store, p.product, branch))
               eval == [store |-> p.store, product |-> p.product,
                        date |-> p.prediction_date,
                        on_hand |-> latest_sales.on_hand,
                        demand |-> p.predicted_demand,
                        branch |-> branch, found |-> found]
           IN  IF ~latest_sales.exists
               THEN run' = [run EXCEPT ![r].todo = @ \ {p}, ![r].last = NoEval]
               ELSE run' = [run EXCEPT
                               ![r].todo = @ \ {p},
                               ![r].last = eval,
                               \* DoesNotExist: get_or_create goes on to create;
                               \* one row: returned; several: MultipleObjectsReturned
                               \* is caught by the loop's except
                               ![r].pc = IF branch # "none" /\ found = 0
                                         THEN "create" ELSE "loop"]
    /\ UNCHANGED <<registryVars, dataVars, alerts, now, cache, reply, features, upload, health, batchVars>>

\* the row the create of get_or_create inserts: lookup fields plus defaults
NewAlert(e) ==
    [id |-> NextAlertId, store |-> e.store, product |-> e.product,
     alert_type |-> e.branch,
     priority |-> AlertPriority(e.branch, e.on_hand, e.demand),
     current_inventory |-> e.on_hand,
     is_acknowledged |-> FALSE, acknowledged_by |-> "", acknowledged_at |-> 0]

\* the create of get_or_create, and alerts_created += 1
GenCreate(r) ==
    /\ run[r].pc = "create"
    /\ alerts' = alerts \cup {NewAlert(run[r].last)}
    /\ run' = [run EXCEPT ![r].pc = "loop", ![r].alerts_created = @ + 1]
    /\ UNCHANGED <<registryVars, dataVars, now, cache, reply, features, upload, health, batchVars>>

\* the loop is exhausted: return {'alerts_created': alerts_created}
GenReturn(r) ==
    /\ run[r].pc = "loop"
    /\ run[r].todo = {}
    /\ run' = [run EXCEPT ![r].pc = "done"]
    /\ UNCHANGED <<registryVars, dataVars, alerts, now, cache, reply, features, upload, health, batchVars>>

\* generate_inventory_alerts runs in sequence: run r starts when the runs
\* before it have returned
GenStartInTurn(r) ==
    /\ \A o \in Runs : o < r => run[o].pc = "done"
    /\ GenStart(r)

\* user_profile.stores of a non-admin user
AccessibleStores(u) == IF u = "manager" THEN {"S1"} ELSE {}

\* the 403 test of acknowledge_alert
MayAcknowledge(u, a) ==
    u = "admin" \/ AccessibleStores(u) = {} \/ a.store \in AccessibleStores(u)

\* the row acknowledge_alert saves
Acknowledged(a, u) ==
    [a EXCEPT !.is_acknowledged = TRUE, !.acknowledged_by = u,
              !.acknowledged_at = now]

\* acknowledge_alert(request, alert_id)
AcknowledgeAlert(u, a) ==
    /\ now <= MaxAcks
    /\ a \in alerts
    /\ MayAcknowledge(u, a)
    /\ alerts' = (alerts \ {a}) \cup {Acknowledged(a, u)}
    /\ now' = now + 1
    /\ UNCHANGED <<registryVars, dataVars, run, cache, reply, features, upload, health, batchVars>>

(* --------------------------- prediction service ------------------------ *)
\* MLService.__init__ / _load_active_model: the model the new instance holds,
\* the active row when its artifact file exists, else 0 (self.model is None)
LoadedModel ==
    IF ActiveModelId = 0 THEN 0
    ELSE LET m == CHOOSE m \in mlmodels : m.id = ActiveModelId
         IN  IF model_files[m.name] # 0 THEN m.id ELSE 0

\* self.model.predict(features)[0] clamped by max(0, prediction): the regressor
\* is a fixed function of the model and the features; outputs of different
\* models differ
ModelOutput(m, s, p, date) == Max(0, (10 * m + date) * DemandDenominator)

\* the result dict of predict_single; lower and upper in thousandths:
\* max(0, d - 1.96 * 0.2 * d) and d + 1.96 * 0.2 * d
Result(d) == [demand |-> d, lower |-> Max(0, 1000 * d - 392 * d),
              upper |-> 1000 * d + 392 * d]

\* None
NoResult == [demand |-> -1, lower |-> 0, upper |-> 0]

\* cache_key = f"prediction_{store_id}_{sku_id}_{target_date}"
CacheKey(s, p, date) == <<s, p, date>>

\* predict_single computes: no cached entry, and the pair has history
Computes(model, s, p, date) ==
    /\ model # 0
    /\ CacheKey(s, p, date) \notin DOMAIN cache
    /\ salesdata[<<s, p>>].exists

\* the value predict_single returns on an MLService holding model
PredictSingle(model, s, p, date) ==
    IF model = 0 THEN NoResult
    ELSE IF CacheKey(s, p, date) \in DOMAIN cache THEN cache[CacheKey(s, p, date)]
    ELSE IF ~salesdata[<<s, p>>].exists THEN NoResult
    ELSE Result(ModelOutput(model, s, p, date))

\* mutant of the cache write: the None of a pair without history is cached too
CacheAfter_CachesNone(model, s, p, date) ==
    IF model # 0 /\ CacheKey(s, p, date) \notin DOMAIN cache
    THEN (CacheKey(s, p, date) :> PredictSingle(model, s, p, date)) @@ cache
    ELSE cache

\* the cache after that call: cache.set of a computed result
CacheAfter(model, s, p, date) ==
    IF Computes(model, s, p, date)
    THEN (CacheKey(s, p, date) :> Result(ModelOutput(model, s, p, date))) @@ cache
    ELSE cache

\* an entry outlives settings.PREDICTION_CACHE_TTL
CacheExpire ==
    /\ \E k \in DOMAIN cache :
          cache' = [x \in DOMAIN cache \ {k} |-> cache[x]]
    /\ UNCHANGED <<registryVars, dataVars, alertVars, reply, features, upload, health, batchVars>>

\* start_date = end_date - pd.Timedelta(days=60)
WindowDays == 60

LagKs == {1, 7, 14, 30}

\* the sales of the observation of date d: a different figure on every date
SalesOn(d) == 500 + d

\* the price of the observation of date d: 10 throughout (step 0), or moving
\* with the date
PriceOn(d, step) == 10 + step * (d % 3)

\* the SalesData rows of a pair observed every stride days, from last days
\* before date target back to first days before it
Observed(target, last, first, stride, step) ==
    {[date |-> target - a, sales |-> SalesOn(target - a),
      price |-> PriceOn(target - a, step)] :
        a \in {x \in last..first : (x - last) % stride = 0}}

\* SalesData.objects.filter(..., date__range=[start_date, end_date])
Window(history, target) ==
    {r \in history : target - WindowDays <= r.date /\ r.date <= target}

\* .order_by('date'), and df['sales'].values
RECURSIVE OrderByDate(_)
OrderByDate(rows) ==
    IF rows = {} THEN <<>>
    ELSE LET r == CHOOSE r \in rows : \A o \in rows : r.date <= o.date
         IN  <<r.sales>> \o OrderByDate(rows \ {r})

\* .order_by('date'), and df['price'].values
RECURSIVE PricesByDate(_)
PricesByDate(rows) ==
    IF rows = {} THEN <<>>
    ELSE LET r == CHOOSE r \in rows : \A o \in rows : r.date <= o.date
         IN  <<r.price>> \o PricesByDate(rows \ {r})

\* the sum of the last n entries of a column
RECURSIVE SumLast(_, _)
SumLast(column, n) ==
    IF n = 0 \/ column = <<>> THEN 0
    ELSE column[Len(column)] + SumLast(SubSeq(column, 1, Len(column) - 1), n - 1)

Min(a, b) == IF a <= b THEN a ELSE b

\* column.rolling(window=min(7, len(df))).mean().iloc[-1], as the total of the
\* window and its length
Rolling7(column) ==
    LET window == Min(7, Len(column))
    IN  [total |-> SumLast(column, window), window |-> window]

\* df['price'] = current_price: the whole column is set to the one value
Broadcast(value, n) == [i \in 1..n |-> value]

\* LabelEncoder.transform([x])[0]: the position of x among the sorted classes
\* of the fit, from 0; ValueError (here Unseen) for a value not among them
Unseen == -1
Transform(classes, x) ==
    IF \E i \in 1..Len(classes) : classes[i] = x
    THEN (CHOOSE i \in 1..Len(classes) : classes[i] = x) - 1
    ELSE Unseen

\* the try / except around the two transform calls
Encode(label_encoders, store_id, sku_id) ==
    LET store_id_encoded == Transform(label_encoders.store_id, store_id)
        sku_id_encoded == Transform(label_encoders.sku_id, sku_id)
    IN  IF store_id_encoded = Unseen \/ sku_id_encoded = Unseen
        THEN [store_id_encoded |-> 0, sku_id_encoded |-> 0]
        ELSE [store_id_encoded |-> store_id_encoded,
              sku_id_encoded |-> sku_id_encoded]

\* recent_sales[-k]
FromEnd(recent_sales, k) == recent_sales[Len(recent_sales) - k + 1]

\* recent_sales[-k] if len(recent_sales) >= k else recent_sales[-1] if
\* len(recent_sales) >= 1 else 0
SalesLag(recent_sales, k) ==
    IF Len(recent_sales) >= k THEN FromEnd(recent_sales, k)
    ELSE IF Len(recent_sales) >= 1 THEN FromEnd(recent_sales, 1)
    ELSE 0

NoFeatures == [pc |-> "none", store_id |-> "", sku_id |-> "",
               label_encoders |-> [store_id |-> <<>>, sku_id |-> <<>>],
               target |-> 0, history |-> {}, found |-> FALSE,
               store_id_encoded |-> -1, sku_id_encoded |-> -1,
               lags |-> [k \in LagKs |-> -1],
               price |-> -1, price_rolling_7 |-> [total |-> -1, window |-> 0]]

\* _prepare_features_for_prediction: None when the window holds no row; else
\* the encodings, the lag features and the price features of the row
PrepareFeatures ==
    /\ features.pc = "request"
    /\ LET historical_data == Window(features.history, features.target)
           recent_sales == OrderByDate(historical_data)
           recent_prices == PricesByDate(historical_data)
           current_price == FromEnd(recent_prices, 1)
           encoded == Encode(features.label_encoders,
                             features.store_id, features.sku_id)
       IN  features' =
             IF historical_data = {}
             THEN [features EXCEPT !.pc = "done", !.found = FALSE]
             ELSE [features EXCEPT
                      !.pc = "done",
                      !.found = TRUE,
                      !.store_id_encoded = encoded.store_id_encoded,
                      !.sku_id_encoded = encoded.sku_id_encoded,
                      !.lags = [k \in LagKs |-> SalesLag(recent_sales, k)],
                      !.price = current_price,
                      !.price_rolling_7 =
                          Rolling7(Broadcast(current_price, Len(recent_prices)))]
    /\ UNCHANGED <<registryVars, dataVars, alertVars, cache, reply, upload, health, batchVars>>

\* predict_single reaches _prepare_features_for_prediction (the history
\* query): a model is loaded and the key has no cached entry
Prepares(model, s, p, date) ==
    model # 0 /\ CacheKey(s, p, date) \notin DOMAIN cache

\* no request made yet; seq numbers the requests, loaded is the model of the
\* request's MLService, prepared tells whether it queried the history
NoReply == [seq |-> 0, status |-> 0, store |-> "", product |-> "", date |-> 0,
            predicted_demand |-> -1, model |-> 0, loaded |-> 0, prepared |-> FALSE]

\* GET predict_demand(store_id, sku_id, date): 404 without an active model,
\* MLService().predict_single, 500 when it returns None, else the demand with
\* the active model's name and version
PredictDemand(s, p, date) ==
    /\ reply.seq < MaxRequests
    /\ \E ok \in BOOLEAN :
        LET model == IF ok THEN LoadedModel ELSE 0
            r == PredictSingle(model, s, p, date)
            request == [NoReply EXCEPT !.seq = reply.seq + 1, !.store = s,
                                       !.product = p, !.date = date]
        IN  IF ActiveModelId = 0
            THEN /\ reply' = [request EXCEPT !.status = 404]
                 /\ UNCHANGED cache
            ELSE /\ reply' = [request EXCEPT
                                !.status = IF r = NoResult THEN 500 ELSE 200,
                                !.predicted_demand = r.demand,
                                !.model = ActiveModelId,
                                !.loaded = model,
                                !.prepared = Prepares(model, s, p, date)]
                 /\ cache' = CacheAfter(model, s, p, date)
    /\ UNCHANGED <<registryVars, dataVars, alertVars, features, upload, health, batchVars>>

(* --------------------------- model health check ----------------------- *)
\* days_since_training > 30
MaxModelAge == 30

\* getattr(settings, 'MODEL_RETRAIN_THRESHOLD', 15) * 100
threshold == 1500

\* mutant of the age test: a day later
TooOld_Later(days_since_training) == days_since_training > MaxModelAge + 1

\* if days_since_training > 30
TooOld(days_since_training) == days_since_training > MaxModelAge

NoHealth == [pc |-> "none", days_since_training |-> 0,
             total_error |-> 0, total_actual |-> 0, recent |-> FALSE,
             status |-> "", reason |-> "", dispatched |-> 0]

\* model_health_check: no_model without an active model; retrain_model.delay()
\* for a model older than 30 days, or for a recent MAPE above the threshold;
\* else healthy; an exception (the dispatch raising) gives status error
ModelHealthCheck ==
    /\ health.pc = "scheduled"
    /\ \E ok \in BOOLEAN :
        LET result(st, why, n) == [health EXCEPT !.pc = "done", !.status = st,
                                                 !.reason = why, !.dispatched = n]
            dispatch(why) == IF ok THEN result("retraining_triggered", why, 1)
                             ELSE result("error", "", 0)
        IN  health' =
              IF ActiveModelId = 0 THEN result("no_model", "", 0)
              ELSE IF TooOld(health.days_since_training)
              THEN dispatch("model_age")
              ELSE IF /\ health.recent /\ health.total_actual > 0
                      /\ health.total_error * 100 > threshold * health.total_actual
              THEN dispatch("performance_degradation")
              ELSE result("healthy", "", 0)
    /\ UNCHANGED <<registryVars, dataVars, alertVars, cache, reply, features, upload,
                   batchVars>>

(* ----------------------------- upload status -------------------------- *)
\* DataValidationError.objects.filter(upload=upload)[:10]
ErrorCap == 10

\* the DataValidationError table: n rows of upload 1, at every stride-th row
\* of the file from row first, and other rows of upload 2
ValidationErrors(n, first, stride, other) ==
    {[upload |-> 1, row_number |-> first + i * stride] : i \in 0..(n - 1)}
        \cup {[upload |-> 2, row_number |-> i] : i \in 1..other}

\* Meta.ordering = ['upload', 'row_number'] within one upload
RECURSIVE OrderByRow(_)
OrderByRow(rows) ==
    IF rows = {} THEN <<>>
    ELSE LET r == CHOOSE r \in rows : \A o \in rows : r.row_number <= o.row_number
         IN  <<r>> \o OrderByRow(rows \ {r})

\* queryset[:n]
Limit(seq, n) == SubSeq(seq, 1, IF Len(seq) < n THEN Len(seq) ELSE n)

NoUpload == [pc |-> "none", errors |-> {}, validation_errors |-> <<>>,
             has_more_errors |-> FALSE]

\* GET upload_status(upload_id) of upload 1: validation_errors is the sliced
\* queryset; validation_errors.count() counts the rows of the slice
UploadStatus ==
    /\ upload.pc = "request"
    /\ LET validation_errors ==
               Limit(OrderByRow({e \in upload.errors : e.upload = 1}), ErrorCap)
       IN  upload' = [upload EXCEPT
                         !.pc = "done",
                         !.validation_errors = validation_errors,
                         !.has_more_errors = Len(validation_errors) > ErrorCap]
    /\ UNCHANGED <<registryVars, dataVars, alertVars, cache, reply, features, health,
                   batchVars>>

(* --------------------------- batch orchestrator ------------------------ *)
NoJob == [status |-> "", model |-> 0,
          prediction_date_start |-> 0, prediction_date_end |-> 0,
          stores_filter |-> {}, products_filter |-> {},
          total_predictions |-> 0, completed_predictions |-> 0,
          error_log |-> "", celery_task_id |-> 0]

\* BatchPredictionJob.objects.create(...) of the view; the field defaults
NewJob(m, from, to, sf, pf) ==
    [NoJob EXCEPT !.status = "pending", !.model = m,
                  !.prediction_date_start = from, !.prediction_date_end = to,
                  !.stores_filter = sf, !.products_filter = pf]

IdleView == [pc |-> "new", date_from |-> 0, date_to |-> 0, response |-> 0,
             batch_job |-> NoJob]

IdleTask == [pc |-> "none", job |-> NoJob, model |-> 0,
             stores |-> <<>>, products |-> <<>>, dates |-> <<>>,
             total_predictions |-> 0, done |-> 0, completed |-> 0,
             predictions_batch |-> <<>>, error |-> "", result |-> ""]

\* mutant of the validation: every range is accepted
IsValid_Always(from, to) == TRUE

\* PredictionRequestSerializer.validate: serializer.is_valid()
IsValid(from, to) == from <= to

\* batch_predict_demand up to BatchPredictionJob.objects.create: the serializer's
\* validate (date_from <= date_to), the active model (404 without one), the
\* insert (500 when it raises)
ViewCreate(j) ==
    /\ view[j].pc = "new"
    /\ \A i \in JobIds : i < j => view[i].pc # "new"
    /\ \E from \in BatchDates, to \in BatchDates,
          sf \in StoreFilters, pf \in ProductFilters, ok \in BOOLEAN :
        LET request == [IdleView EXCEPT !.date_from = from, !.date_to = to]
            answer(code) == [request EXCEPT !.pc = "done", !.response = code]
        IN  IF ~IsValid(from, to)
            THEN /\ view' = [view EXCEPT ![j] = answer(400)]
                 /\ UNCHANGED jobs
            ELSE IF ActiveModelId = 0 \/ ~ok
            THEN /\ view' = [view EXCEPT ![j] =
                                answer(IF ActiveModelId = 0 THEN 404 ELSE 500)]
                 /\ UNCHANGED jobs
            ELSE LET row == NewJob(ActiveModelId, from, to, sf, pf)
                 IN  /\ jobs' = [jobs EXCEPT ![j] = row]
                     /\ view' = [view EXCEPT ![j] =
                                    [request EXCEPT !.pc = "delay", !.batch_job = row]]
    /\ UNCHANGED <<registryVars, dataVars, alertVars, cache, reply, features, upload, health, task, alert_tasks>>

\* task = batch_predict.delay(batch_job.id); batch_job.celery_task_id = task.id
ViewDelay(j) ==
    /\ view[j].pc = "delay"
    /\ \E ok \in BOOLEAN :
        IF ok
        THEN /\ task' = [task EXCEPT ![j].pc = "queued"]
             /\ view' = [view EXCEPT ![j].pc = "save",
                                     ![j].batch_job.celery_task_id = j]
        ELSE /\ view' = [view EXCEPT ![j].pc = "done", ![j].response = 500]
             /\ UNCHANGED task
    /\ UNCHANGED <<registryVars, dataVars, alertVars, cache, reply, features, upload, health, jobs, alert_tasks>>

\* batch_job.save(): Model.save() writes every field of the instance; then
\* 202 Accepted, or 500 from the view's except
ViewSave(j) ==
    /\ view[j].pc = "save"
    /\ \E ok \in BOOLEAN :
        IF ok THEN /\ jobs' = [jobs EXCEPT ![j] = view[j].batch_job]
                   /\ view' = [view EXCEPT ![j].pc = "done", ![j].response = 202]
              ELSE /\ UNCHANGED jobs
                   /\ view' = [view EXCEPT ![j].pc = "done", ![j].response = 500]
    /\ UNCHANGED <<registryVars, dataVars, alertVars, cache, reply, features, upload, health, task, alert_tasks>>

\* an exception reaches the except of batch_predict (tasks.py:132)
Raise(j, e) == [task EXCEPT ![j].pc = "except", ![j].error = e]

\* job = BatchPredictionJob.objects.get(id=job_id)
TaskGet(j) ==
    /\ task[j].pc = "queued"
    /\ \E ok \in BOOLEAN :
        task' = IF ok THEN [task EXCEPT ![j].pc = "mark", ![j].job = jobs[j]]
                ELSE Raise(j, "database")
    /\ UNCHANGED <<registryVars, dataVars, alertVars, cache, reply, features, upload, health, jobs, view, alert_tasks>>

\* job.status = 'processing'; job.save()
TaskMark(j) ==
    /\ task[j].pc = "mark"
    /\ LET job == [task[j].job EXCEPT !.status = "processing"]
       IN  \E ok \in BOOLEAN :
            IF ok
            THEN /\ jobs' = [jobs EXCEPT ![j] = job]
                 /\ task' = [task EXCEPT ![j].pc = "load", ![j].job = job]
            ELSE /\ task' = [Raise(j, "database") EXCEPT ![j].job = job]
                 /\ UNCHANGED jobs
    /\ UNCHANGED <<registryVars, dataVars, alertVars, cache, reply, features, upload, health, view, alert_tasks>>

\* ml_service = MLService(); _load_active_model swallows its own exceptions;
\* raise Exception("No ML model available") unless is_model_loaded()
TaskLoad(j) ==
    /\ task[j].pc = "load"
    /\ \E ok \in BOOLEAN :
        LET model == IF ok THEN LoadedModel ELSE 0
        IN  task' = IF model = 0 THEN Raise(j, "No ML model available")
                    ELSE [task EXCEPT ![j].pc = "plan", ![j].model = model]
    /\ UNCHANGED <<registryVars, dataVars, alertVars, cache, reply, features, upload, health, jobs, view, alert_tasks>>

\* stores.filter(store_id__in=job.stores_filter) when the filter is not empty
Filtered(seq, filter) ==
    IF filter = {} THEN seq ELSE SelectSeq(seq, LAMBDA x : x \in filter)

\* mutant of the date list: prediction_date_end is left out
DateRange_Exclusive(from, to) == [i \in 1..(to - from) |-> from + i - 1]

\* the dates from prediction_date_start to prediction_date_end, both included
DateRange(from, to) == [i \in 1..(to - from + 1) |-> from + i - 1]

\* the querysets and the date list are evaluated, total_predictions is
\* computed and saved with the job
TaskPlan(j) ==
    /\ task[j].pc = "plan"
    /\ LET stores == Filtered(StoreSeq, task[j].job.stores_filter)
           products == Filtered(ProductSeq, task[j].job.products_filter)
           dates == DateRange(task[j].job.prediction_date_start,
                              task[j].job.prediction_date_end)
           total == Len(stores) * Len(products) * Len(dates)
           job == [task[j].job EXCEPT !.total_predictions = total]
       IN  \E ok \in BOOLEAN :
            IF ok
            THEN /\ jobs' = [jobs EXCEPT ![j] = job]
                 /\ task' = [task EXCEPT ![j].pc = "loop", ![j].job = job,
                                         ![j].stores = stores,
                                         ![j].products = products,
                                         ![j].dates = dates,
                                         ![j].total_predictions = total]
            ELSE /\ task' = Raise(j, "database")
                 /\ UNCHANGED jobs
    /\ UNCHANGED <<registryVars, dataVars, alertVars, cache, reply, features, upload, health, view, alert_tasks>>

\* the n-th (store, product, date) of the three nested for loops
Item(t, n) ==
    LET np == Len(t.products)
        nd == Len(t.dates)
    IN  [store |-> t.stores[((n - 1) \div (np * nd)) + 1],
         product |-> t.products[(((n - 1) \div nd) % np) + 1],
         date |-> t.dates[((n - 1) % nd) + 1]]

\* ForecastPrediction(model=job.model, ...): the pk is set when the instance
\* is made (uuid4), here the job and the item's number
Prediction(id, m, s, p, date, r) ==
    [id |-> id, model |-> m, store |-> s, product |-> p, prediction_date |-> date,
     predicted_demand |-> r.demand,
     confidence_interval_lower |-> r.lower, confidence_interval_upper |-> r.upper]

\* one iteration up to "completed += 1" and the test of the batch length
TaskItem(j) ==
    /\ task[j].pc = "loop"
    /\ task[j].done < task[j].total_predictions
    /\ LET t == task[j]
           it == Item(t, t.done + 1)
           r == PredictSingle(t.model, it.store, it.product, it.date)
           batch == IF r = NoResult THEN t.predictions_batch
                    ELSE Append(t.predictions_batch,
                                Prediction(<<j, t.done + 1>>, t.job.model,
                                           it.store, it.product, it.date, r))
       IN  /\ cache' = CacheAfter(t.model, it.store, it.product, it.date)
           /\ task' = [task EXCEPT ![j].done = @ + 1,
                                   ![j].completed = @ + 1,
                                   ![j].predictions_batch = batch,
                                   ![j].pc = IF Len(batch) >= batch_size
                                             THEN "flush" ELSE "loop"]
    /\ UNCHANGED <<registryVars, dataVars, alertVars, reply, features, upload, health, jobs, view, alert_tasks>>

\* unique_together = ['model', 'store', 'product', 'prediction_date']
SameKey(a, b) ==
    /\ a.model = b.model /\ a.store = b.store
    /\ a.product = b.product /\ a.prediction_date = b.prediction_date

\* mutant of the insert: the unique key is not enforced
RECURSIVE BulkCreate_NoKey(_, _)
BulkCreate_NoKey(table, batch) ==
    IF batch = <<>> THEN table
    ELSE BulkCreate_NoKey(table \cup {Head(batch)}, Tail(batch))

\* ForecastPrediction.objects.bulk_create(batch, ignore_conflicts=True) under
\* unique_together: a row whose key exists is skipped
RECURSIVE BulkCreate(_, _)
BulkCreate(table, batch) ==
    IF batch = <<>> THEN table
    ELSE LET row == Head(batch)
             conflict == \E q \in table : SameKey(q, row)
         IN  BulkCreate(IF conflict THEN table ELSE table \cup {row}, Tail(batch))

\* mutant of the flush: its exception is not caught at the item but ends the job
TaskFlush_Abort(j) ==
    /\ task[j].pc = "flush"
    /\ \E ok \in BOOLEAN :
        IF ok
        THEN /\ predictions' = BulkCreate(predictions, task[j].predictions_batch)
             /\ task' = [task EXCEPT ![j].pc = "progress",
                                     ![j].predictions_batch = <<>>]
        ELSE /\ task' = Raise(j, "database")
             /\ UNCHANGED predictions
    /\ UNCHANGED <<registryVars, salesdata, alertVars, cache, reply, features, upload, health, jobs, view, alert_tasks>>

\* the batch is full: bulk_create, then predictions_batch = []; an exception
\* is caught by the except of the iteration, which continues the loop
TaskFlush(j) ==
    /\ task[j].pc = "flush"
    /\ \E ok \in BOOLEAN :
        IF ok
        THEN /\ predictions' = BulkCreate(predictions, task[j].predictions_batch)
             /\ task' = [task EXCEPT ![j].pc = "progress",
                                     ![j].predictions_batch = <<>>]
        ELSE /\ task' = [task EXCEPT ![j].pc = "loop"]
             /\ UNCHANGED predictions
    /\ UNCHANGED <<registryVars, salesdata, alertVars, cache, reply, features, upload, health, jobs, view, alert_tasks>>

\* job.completed_predictions = completed; job.save(); self.update_state(...);
\* an exception is caught by the except of the iteration
TaskProgress(j) ==
    /\ task[j].pc = "progress"
    /\ LET job == [task[j].job EXCEPT !.completed_predictions = task[j].completed]
       IN  /\ task' = [task EXCEPT ![j].pc = "loop", ![j].job = job]
           /\ \E ok \in BOOLEAN :
                IF ok THEN jobs' = [jobs EXCEPT ![j] = job] ELSE UNCHANGED jobs
    /\ UNCHANGED <<registryVars, dataVars, alertVars, cache, reply, features, upload, health, view, alert_tasks>>

\* mutant of the final flush: its exception is swallowed and the job goes on
TaskFinalFlush_Swallowed(j) ==
    /\ task[j].pc = "loop"
    /\ task[j].done = task[j].total_predictions
    /\ IF task[j].predictions_batch = <<>>
       THEN /\ task' = [task EXCEPT ![j].pc = "complete"]
            /\ UNCHANGED predictions
       ELSE \E ok \in BOOLEAN :
            IF ok
            THEN /\ predictions' = BulkCreate(predictions, task[j].predictions_batch)
                 /\ task' = [task EXCEPT ![j].pc = "complete"]
            ELSE /\ task' = [task EXCEPT ![j].pc = "complete"]
                 /\ UNCHANGED predictions
    /\ UNCHANGED <<registryVars, salesdata, alertVars, cache, reply, features, upload, health, jobs, view, alert_tasks>>

\* after the loops: "if predictions_batch: bulk_create(...)"
TaskFinalFlush(j) ==
    /\ task[j].pc = "loop"
    /\ task[j].done = task[j].total_predictions
    /\ IF task[j].predictions_batch = <<>>
       THEN /\ task' = [task EXCEPT ![j].pc = "complete"]
            /\ UNCHANGED predictions
       ELSE \E ok \in BOOLEAN :
            IF ok
            THEN /\ predictions' = BulkCreate(predictions, task[j].predictions_batch)
                 /\ task' = [task EXCEPT ![j].pc = "complete"]
            ELSE /\ task' = Raise(j, "database")
                 /\ UNCHANGED predictions
    /\ UNCHANGED <<registryVars, salesdata, alertVars, cache, reply, features, upload, health, jobs, view, alert_tasks>>

\* job.status = 'completed'; job.completed_predictions = completed; job.save()
TaskComplete(j) ==
    /\ task[j].pc = "complete"
    /\ LET job == [task[j].job EXCEPT !.status = "completed",
                                      !.completed_predictions = task[j].completed]
       IN  \E ok \in BOOLEAN :
            IF ok
            THEN /\ jobs' = [jobs EXCEPT ![j] = job]
                 /\ task' = [task EXCEPT ![j].pc = "dispatch", ![j].job = job]
            ELSE /\ task' = [Raise(j, "database") EXCEPT ![j].job = job]
                 /\ UNCHANGED jobs
    /\ UNCHANGED <<registryVars, dataVars, alertVars, cache, reply, features, upload, health, view, alert_tasks>>

\* generate_inventory_alerts.delay(job_id), then return {'status': 'completed'}
TaskDispatch(j) ==
    /\ task[j].pc = "dispatch"
    /\ \E ok \in BOOLEAN :
        IF ok
        THEN /\ alert_tasks' = [alert_tasks EXCEPT ![j] = @ + 1]
             /\ task' = [task EXCEPT ![j].pc = "returned", ![j].result = "completed"]
        ELSE /\ task' = Raise(j, "broker")
             /\ UNCHANGED alert_tasks
    /\ UNCHANGED <<registryVars, dataVars, alertVars, cache, reply, features, upload, health, jobs, view>>

\* the handler: job = BatchPredictionJob.objects.get(id=job_id); when this
\* raises, "except: pass" and return {'status': 'failed'}
HandlerGet(j) ==
    /\ task[j].pc = "except"
    /\ \E ok \in BOOLEAN :
        task' = IF ok THEN [task EXCEPT ![j].pc = "except_save", ![j].job = jobs[j]]
                ELSE [task EXCEPT ![j].pc = "returned", ![j].result = "failed"]
    /\ UNCHANGED <<registryVars, dataVars, alertVars, cache, reply, features, upload, health, jobs, view, alert_tasks>>

\* job.status = 'failed'; job.error_log = str(e); job.save(), under
\* "except: pass"; return {'status': 'failed'}
HandlerSave(j) ==
    /\ task[j].pc = "except_save"
    /\ LET job == [task[j].job EXCEPT !.status = "failed",
                                      !.error_log = task[j].error]
       IN  /\ task' = [task EXCEPT ![j].pc = "returned", ![j].result = "failed",
                                   ![j].job = job]
           /\ \E ok \in BOOLEAN :
                IF ok THEN jobs' = [jobs EXCEPT ![j] = job] ELSE UNCHANGED jobs
    /\ UNCHANGED <<registryVars, dataVars, alertVars, cache, reply, features, upload, health, view, alert_tasks>>

(* ------------------------------ initial states ------------------------ *)
\* a fresh installation, or one with a first trained model
InitModels ==
    /\ mlmodels \in {{}, {[id |-> 1, name |-> 1, is_active |-> TRUE]}}
    /\ model_files = [n \in ModelNames |->
                         IF \E m \in mlmodels : m.name = n THEN MaxTrainers + 1 ELSE 0]
    /\ trainer = [t \in Trainers |-> [pc |-> "idle", name |-> 0, model_id |-> 0]]

\* exactly one trained, active model
OneModel ==
    /\ mlmodels = {[id |-> 1, name |-> 1, is_active |-> TRUE]}
    /\ model_files = [n \in ModelNames |-> IF n = 1 THEN MaxTrainers + 1 ELSE 0]
    /\ trainer = [t \in Trainers |-> [pc |-> "idle", name |-> 0, model_id |-> 0]]

\* a ForecastPrediction row of demand d written by an earlier batch job
PredictionRow(m, s, p, date, d) ==
    Prediction(<<0, s, date, d>>, m, s, p, date, Result(d))

\* no BatchPredictionJob row, no task queued, an empty cache
NoTasks ==
    /\ cache = <<>>
    /\ reply = NoReply
    /\ jobs = [j \in JobIds |-> NoJob]
    /\ task = [j \in JobIds |-> IdleTask]
    /\ alert_tasks = [j \in JobIds |-> 0]

\* the first n batch requests are to arrive
Requests(n) ==
    view = [j \in JobIds |-> IF j <= n THEN IdleView
                             ELSE [IdleView EXCEPT !.pc = "done"]]

NoBatch ==
    /\ NoTasks /\ Requests(0) /\ features = NoFeatures
    /\ upload = NoUpload /\ health = NoHealth

\* the tables of at most n rows over the candidate rows that respect the key
Tables(candidates, n) ==
    {T \in SUBSET candidates :
        /\ Cardinality(T) <= n
        /\ \A a, b \in T : SameKey(a, b) => a = b}

\* the latest SalesData row of a pair: absent, or its on_hand
SalesRows(on_hands) ==
    {[exists |-> FALSE, on_hand |-> 0]} \cup
    {[exists |-> TRUE, on_hand |-> h] : h \in on_hands}

NoAlertsYet ==
    /\ alerts = {}
    /\ now = 1

\* inputs of the alert rules: prediction dates around the window, demands
\* 0, 1/DemandDenominator and 10, inventories around the two thresholds
RuleDates == {-1, 0, lookahead, lookahead + 1}
RuleDemands == {0, 1, 10 * DemandDenominator}
RuleOnHands == {-1, 0, 1, 5, 12, 14, 15, 40, 41, 50}

\* one run of generate_inventory_alerts over at most two predictions
InitRule ==
    /\ OneModel
    /\ predictions \in Tables({PredictionRow(1, s, "P1", date, d) :
                                  s \in Stores, date \in RuleDates, d \in RuleDemands}, 2)
    /\ salesdata \in [Pairs -> SalesRows(RuleOnHands)]
    /\ NoAlertsYet
    /\ NoBatch
    /\ run = [r \in Runs |-> IF r = 1 THEN IdleRun ELSE [IdleRun EXCEPT !.pc = "done"]]

\* concurrent runs and acknowledgements over predictions of demand 10
AlertDates == {0, 1}
AlertOnHands == {5, 50}

InitAlerts ==
    /\ OneModel
    /\ predictions \in Tables({PredictionRow(1, s, "P1", date, 10 * DemandDenominator) :
                                  s \in Stores, date \in AlertDates}, 2)
    /\ salesdata \in [Pairs -> SalesRows(AlertOnHands)]
    /\ NoAlertsYet
    /\ NoBatch
    /\ run = [r \in Runs |-> IdleRun]

InitRegistry ==
    /\ InitModels
    /\ predictions = {}
    /\ salesdata = [pr \in Pairs |-> [exists |-> FALSE, on_hand |-> 0]]
    /\ NoAlertsYet
    /\ NoBatch
    /\ run = [r \in Runs |-> IdleRun]

\* predict_demand requests while one retrain_model run replaces the active
\* model; the other retrain_model runs have failed in training
InitPredict ==
    /\ mlmodels = {[id |-> 1, name |-> 1, is_active |-> TRUE]}
    /\ model_files = [n \in ModelNames |-> IF n = 1 THEN MaxTrainers + 1 ELSE 0]
    /\ trainer = [t \in Trainers |->
                    [pc |-> IF t = 1 THEN "idle" ELSE "failed",
                     name |-> IF t = 1 THEN 0 ELSE t, model_id |-> 0]]
    /\ predictions = {}
    /\ salesdata = [pr \in Pairs |-> [exists |-> pr[1] = "S1", on_hand |-> 5]]
    /\ NoAlertsYet
    /\ NoBatch
    /\ run = [r \in Runs |-> IdleRun]

\* the sorted classes of the two label encoders as training fitted them: the
\* request's identifiers are among them or not
FittedStores == {<<"S1", "S2">>, <<"S1">>}
FittedSkus == {<<"P1">>, <<"P2">>}

\* feature preparation for a target date over the histories of a pair
InitLags ==
    /\ OneModel
    /\ predictions = {}
    /\ salesdata = [pr \in Pairs |-> [exists |-> pr[1] = "S1", on_hand |-> 5]]
    /\ NoAlertsYet
    /\ NoTasks
    /\ Requests(0)
    /\ upload = NoUpload
    /\ health = NoHealth
    /\ run = [r \in Runs |-> IdleRun]
    /\ \E target \in BatchDates, last \in 0..MaxFirstAge, first \in 0..MaxAge,
          stride \in 1..MaxStride, step \in 0..1, store_id \in Stores,
          stores \in FittedStores, skus \in FittedSkus :
            /\ last <= first
            /\ features = [NoFeatures EXCEPT
                               !.pc = "request", !.target = target,
                               !.store_id = store_id, !.sku_id = "P1",
                               !.label_encoders = [store_id |-> stores,
                                                   sku_id |-> skus],
                               !.history = Observed(target, last, first, stride, step)]

\* a model_health_check run: with or without an active model, of any age,
\* with or without recent predictions that have an actual demand
HealthAges == {0, 30, 31, 35}
HealthErrors == {0, 15, 16, 40}
HealthActuals == {0, 1, 2}

InitHealth ==
    /\ \/ OneModel
       \/ /\ mlmodels = {[id |-> 1, name |-> 1, is_active |-> FALSE]}
          /\ model_files = [n \in ModelNames |-> IF n = 1 THEN MaxTrainers + 1 ELSE 0]
          /\ trainer = [t \in Trainers |-> [pc |-> "idle", name |-> 0, model_id |-> 0]]
    /\ predictions = {}
    /\ salesdata = [pr \in Pairs |-> [exists |-> pr[1] = "S1", on_hand |-> 5]]
    /\ NoAlertsYet
    /\ NoTasks
    /\ Requests(0)
    /\ features = NoFeatures
    /\ upload = NoUpload
    /\ run = [r \in Runs |-> IdleRun]
    /\ \E age \in HealthAges, e \in HealthErrors, a \in HealthActuals, recent \in BOOLEAN :
            /\ recent \/ (e = 0 /\ a = 0)
            /\ health = [NoHealth EXCEPT !.pc = "scheduled",
                                         !.days_since_training = age,
                                         !.recent = recent,
                                         !.total_error = e, !.total_actual = a]

\* an upload_status request for an upload with validation errors
InitUpload ==
    /\ OneModel
    /\ predictions = {}
    /\ salesdata = [pr \in Pairs |-> [exists |-> pr[1] = "S1", on_hand |-> 5]]
    /\ NoAlertsYet
    /\ NoTasks
    /\ Requests(0)
    /\ features = NoFeatures
    /\ health = NoHealth
    /\ run = [r \in Runs |-> IdleRun]
    /\ \E n \in 0..MaxErrors, first \in 1..MaxStride, stride \in 1..MaxStride,
          other \in 0..1 :
            upload = [NoUpload EXCEPT
                         !.pc = "request",
                         !.errors = ValidationErrors(n, first, stride, other)]

\* demands of the rows an earlier batch job left behind
EarlierDemands == {1, 11 * DemandDenominator}

\* a batch request arrives over a prediction table that earlier jobs of the
\* same model have filled in part (the request is a re-run for those rows);
\* S1 has sales history and S2 has none; the cache entries have expired
InitBatch ==
    /\ OneModel
    /\ predictions \in Tables({PredictionRow(1, "S1", "P1", date, d) :
                                  date \in BatchDates, d \in EarlierDemands}, NDates)
    /\ salesdata = [pr \in Pairs |-> [exists |-> pr[1] = "S1", on_hand |-> 5]]
    /\ NoAlertsYet
    /\ NoTasks
    /\ Requests(1)
    /\ features = NoFeatures
    /\ upload = NoUpload
    /\ health = NoHealth
    /\ run = [r \in Runs |-> IdleRun]

\* a batch request arrives while one retrain_model run replaces the active
\* model; the other retrain_model runs have failed in training
InitSwitch ==
    /\ mlmodels = {[id |-> 1, name |-> 1, is_active |-> TRUE]}
    /\ model_files = [n \in ModelNames |-> IF n = 1 THEN MaxTrainers + 1 ELSE 0]
    /\ trainer = [t \in Trainers |->
                    [pc |-> IF t = 1 THEN "idle" ELSE "failed",
                     name |-> IF t = 1 THEN 0 ELSE t, model_id |-> 0]]
    /\ predictions = {}
    /\ salesdata = [pr \in Pairs |-> [exists |-> pr[1] = "S1", on_hand |-> 5]]
    /\ NoAlertsYet
    /\ NoTasks
    /\ Requests(1)
    /\ features = NoFeatures
    /\ upload = NoUpload
    /\ health = NoHealth
    /\ run = [r \in Runs |-> IdleRun]

(* ------------------------------ specifications ------------------------ *)
NextRegistry ==
    \E t \in Trainers :
        \/ RetrainTrain(t)
        \/ SaveDump(t)
        \/ SaveCreate(t)
        \/ SaveDeactivate(t)

SpecRegistry == InitRegistry /\ [][NextRegistry]_vars

NextRule ==
    \E r \in Runs :
        \/ GenStart(r)
        \/ GenEval(r)
        \/ GenCreate(r)
        \/ GenReturn(r)

SpecRule == InitRule /\ [][NextRule]_vars

NextAlerts ==
    \/ \E r \in Runs :
        \/ GenStart(r)
        \/ GenEval(r)
        \/ GenCreate(r)
        \/ GenReturn(r)
    \/ \E u \in Users, a \in alerts : AcknowledgeAlert(u, a)

SpecAlerts == InitAlerts /\ [][NextAlerts]_vars

NextRerun ==
    \E r \in Runs :
        \/ GenStartInTurn(r)
        \/ GenEval(r)
        \/ GenCreate(r)
        \/ GenReturn(r)

SpecRerun == InitAlerts /\ [][NextRerun]_vars

\* runs in sequence with acknowledgements at any moment
NextAcknowledge ==
    \/ NextRerun
    \/ \E u \in Users, a \in alerts : AcknowledgeAlert(u, a)

SpecAcknowledge == InitAlerts /\ [][NextAcknowledge]_vars

NextLags == PrepareFeatures

SpecLags == InitLags /\ [][NextLags]_vars

NextHealth == ModelHealthCheck

SpecHealth == InitHealth /\ [][NextHealth]_vars

NextUpload == UploadStatus

SpecUpload == InitUpload /\ [][NextUpload]_vars

NextPredict ==
    \/ \E s \in Stores, p \in Products, date \in BatchDates : PredictDemand(s, p, date)
    \/ CacheExpire
    \/ \E t \in Trainers :
        \/ RetrainTrain(t)
        \/ SaveDump(t)
        \/ SaveCreate(t)
        \/ SaveDeactivate(t)

SpecPredict == InitPredict /\ [][NextPredict]_vars

NextBatch ==
    \/ \E j \in JobIds :
        \/ ViewCreate(j)
        \/ ViewDelay(j)
        \/ ViewSave(j)
        \/ TaskGet(j)
        \/ TaskMark(j)
        \/ TaskLoad(j)
        \/ TaskPlan(j)
        \/ TaskItem(j)
        \/ TaskFlush(j)
        \/ TaskProgress(j)
        \/ TaskFinalFlush(j)
        \/ TaskComplete(j)
        \/ TaskDispatch(j)
        \/ HandlerGet(j)
        \/ HandlerSave(j)

SpecBatch == InitBatch /\ [][NextBatch]_vars

NextSwitch ==
    \/ NextBatch
    \/ \E t \in Trainers :
        \/ RetrainTrain(t)
        \/ SaveDump(t)
        \/ SaveCreate(t)
        \/ SaveDeactivate(t)

SpecSwitch == InitSwitch /\ [][NextSwitch]_vars

(* ------------------------ claims: model registry ----------------------- *)
\* no save_model call is in flight, none raised after creating its row, and at
\* least one has completed
AllSavesFinished ==
    /\ \A t \in Trainers :
          \/ trainer[t].pc \in {"idle", "saved"}
          \/ trainer[t].pc = "failed" /\ trainer[t].model_id = 0
    /\ \E t \in Trainers : trainer[t].pc = "saved"

\* C2: once every model activation (save_model) has finished, exactly one
\* MLModel has is_active = true, also when the calls ran concurrently.
C2_ExactlyOneActiveAfterActivations ==
    AllSavesFinished => Cardinality(ActiveModels) = 1

\* C3: in every reachable state, the states inside a save_model call included,
\* at most one MLModel has is_active = true.
C3_AtMostOneActive == Cardinality(ActiveModels) <= 1

(* ------------------------- claims: alert engine ------------------------ *)
\* C4: in every reachable state there is at most one InventoryAlert with
\* is_acknowledged = false per (store, product, alert_type), also when runs of
\* generate_inventory_alerts interleave.
C4_OneOutstandingAlertPerKey ==
    \A s \in Stores, p \in Products, type \in {"stockout_risk", "overstock_risk"} :
        Cardinality(Outstanding(s, p, type)) <= 1

\* the evaluations the runs have just made
Evaluated == {run[r].last : r \in {q \in Runs : run[q].last.branch # ""}}

\* a run stands between the lookup and the create of get_or_create
Creating(e) == \E r \in Runs : run[r].last = e /\ run[r].pc = "create"

\* C7: a prediction of demand 10 whose pair has on_hand 12 takes neither the
\* stockout nor the overstock branch, and no alert is created for it.
C7_NoAlertFor12And10 ==
    \A e \in Evaluated :
        (e.on_hand = 12 /\ e.demand = 10 * DemandDenominator)
            => (e.branch = "none" /\ ~Creating(e))

\* C7 as amended: a prediction of demand 10 whose pair has on_hand 12 takes the
\* stockout branch (12 < 15) and, no unacknowledged stockout_risk alert of the
\* pair being found, a stockout_risk alert of priority critical is created;
\* for demand 10 neither branch is taken exactly when 15 <= on_hand <= 40.
C7_StockoutFor12And10 ==
    /\ \A r \in Runs :
        LET e == run[r].last
        IN  (e.branch # "" /\ e.demand = 10 * DemandDenominator) =>
              /\ e.on_hand = 12 =>
                    /\ e.branch = "stockout_risk"
                    /\ e.found = 0 =>
                          \/ run[r].pc = "create"
                          \/ \E a \in alerts :
                                /\ a.store = e.store /\ a.product = e.product
                                /\ a.alert_type = "stockout_risk"
                                /\ a.current_inventory = 12
              /\ (e.branch = "none") <=> (15 <= e.on_hand /\ e.on_hand <= 40)
    /\ \A a \in alerts :
        (a.alert_type = "stockout_risk" /\ a.current_inventory = 12)
            => a.priority = "critical"

C7_Witness ==
    /\ \E a \in alerts :
        /\ a.alert_type = "stockout_risk"
        /\ a.current_inventory = 12
        /\ a.priority = "critical"
    /\ \E r \in Runs :
        /\ run[r].last.on_hand = 12
        /\ run[r].last.demand = 10 * DemandDenominator
        /\ run[r].pc \in {"loop", "done"}

\* C8: every evaluated prediction lies in the lookahead window of 30 days;
\* for it stockout_risk is detected exactly when on_hand < 1.5 x demand,
\* otherwise overstock_risk exactly when on_hand > 4 x demand, otherwise
\* nothing; an overstock alert has priority low; one evaluation leads to at
\* most one create, of the detected type.
C8_RulesInOrder ==
    /\ \A e \in Evaluated :
        LET stockout == 10 * e.on_hand * DemandDenominator < 15 * e.demand
            overstock == e.on_hand * DemandDenominator > 4 * e.demand
        IN  /\ 0 <= e.date /\ e.date <= 30
            /\ (e.branch = "stockout_risk") <=> stockout
            /\ (e.branch = "overstock_risk") <=> (~stockout /\ overstock)
            /\ (e.branch = "none") <=> (~stockout /\ ~overstock)
            /\ Creating(e) => e.branch # "none"
    /\ \A a \in alerts :
        /\ a.alert_type \in {"stockout_risk", "overstock_risk"}
        /\ a.alert_type = "overstock_risk" => a.priority = "low"

C8_Witness ==
    /\ \E a \in alerts :
        a.alert_type = "overstock_risk" /\ a.current_inventory = 50 /\ a.priority = "low"
    /\ \E r \in Runs :
        /\ run[r].last.on_hand = 5
        /\ run[r].last.demand = 10 * DemandDenominator
        /\ run[r].last.branch = "stockout_risk"


(* ------------------------- batch job status (C1) ----------------------- *)
\* the edges of the status of a persisted BatchPredictionJob the contract allows
StatusEdges == {<<"pending", "processing">>, <<"processing", "completed">>,
                <<"processing", "failed">>}

\* C1: under any interleaving of the submission view and the batch_predict
\* task, the persisted status of a job changes only along pending->processing,
\* processing->completed and processing->failed: it never returns to pending
\* and a completed or failed job never changes again
C1_StatusEdgesOnly ==
    [][\A j \in JobIds :
          \/ jobs[j].status = ""
          \/ jobs'[j].status = jobs[j].status
          \/ <<jobs[j].status, jobs'[j].status>> \in StatusEdges]_vars

(* ---------------------------- progress (C5) ---------------------------- *)
\* C5: at every persisted state a status poll can read, completed_predictions
\* has not decreased since the state before and is at most total_predictions
C5_ProgressMonotoneAndBounded ==
    [][\A j \in JobIds :
          /\ jobs'[j].completed_predictions >= jobs[j].completed_predictions
          /\ jobs'[j].completed_predictions <= jobs'[j].total_predictions]_vars

(* -------------------------- point cache (C6) --------------------------- *)
\* C6: the point cache is keyed by the model too: the demand predict_single
\* returns for (store, product, date) is the output of the model that is the
\* active, loaded one at the call, never a result cached under another model
C6_ReplyIsOfActiveModel ==
    reply.status = 200 =>
        reply.predicted_demand =
            ModelOutput(reply.model, reply.store, reply.product, reply.date)

(* ------------------------- job-level failure (C9) ---------------------- *)
\* the request and the task of job j have both ended: nothing writes the row again
Over(j) == view[j].pc = "done" /\ task[j].pc = "returned"

\* C9: a job that became processing ends completed or failed, a failed one
\* with the reason in error_log; no job-level failure is swallowed with the
\* job left in processing for ever
C9_NoJobLeftProcessing ==
    \A j \in JobIds :
        /\ Over(j) => jobs[j].status # "processing"
        /\ jobs[j].status = "failed" => jobs[j].error_log # ""

(* --------------------------- ignored conflicts (C10) ------------------- *)
\* C10: persisting predictions keeps every row already in the table as it is
\* (a key that has a row keeps the first-written values) and leaves at most
\* one ForecastPrediction per (model, store, product, prediction_date)
C10_OneRowPerKeyFirstWriteKept ==
    [][/\ \A q \in predictions : q \in predictions'
       /\ \A a, b \in predictions' : SameKey(a, b) => a = b]_vars

\* the final bulk_create of a job has run with a row whose key had a row of
\* another demand: the table holds the earlier row and not the job's
C10_Witness ==
    \E j \in JobIds :
        /\ task[j].pc = "complete"
        /\ \E i \in 1..Len(task[j].predictions_batch) :
            LET row == task[j].predictions_batch[i]
            IN  /\ row \notin predictions
                /\ \E q \in predictions :
                    /\ SameKey(q, row)
                    /\ q.predicted_demand # row.predicted_demand
                    /\ \A o \in predictions : SameKey(o, row) => o = q

(* ------------------------- per-item failure (C11) ---------------------- *)
\* C11: an exception raised inside the per-item step (the flush of a full
\* batch, the progress save) is absorbed at the item: the step never leads to
\* the job's handler, the loop is left only when every item of the product
\* has been processed, and a task that returns completed has processed all
C11_ItemFailureAbsorbed ==
    [][\A j \in JobIds :
          /\ task[j].pc \in {"flush", "progress"}
                => task'[j].pc \in {"flush", "progress", "loop"}
          /\ (task[j].pc = "loop" /\ task'[j].pc \in {"complete", "except"})
                => task[j].done = task[j].total_predictions
          /\ task'[j].result = "completed"
                => /\ task'[j].done = task'[j].total_predictions
                   /\ task'[j].job.status = "completed"]_vars

\* a flush inside the loop raised (only then does the batch stay at
\* batch_size or more rows after the loop), the rows were written by the
\* final flush and the job is completed
C11_Witness ==
    \E j \in JobIds :
        /\ task[j].result = "completed"
        /\ jobs[j].status = "completed"
        /\ Len(task[j].predictions_batch) >= batch_size
        /\ \A i \in 1..Len(task[j].predictions_batch) :
              \E q \in predictions : SameKey(q, task[j].predictions_batch[i])

(* --------------------------- no model (C12) ---------------------------- *)
\* the job's own ForecastPrediction rows
RowsOf(j) == {q \in predictions : q.id[1] = j}

\* C12: when no model can be loaded as batch_predict starts, the job ends
\* failed with error_log saying that no model is available, no item is
\* processed, no ForecastPrediction is written and no alert run is triggered
C12_NoModelFailsJob ==
    \A j \in JobIds :
        (Over(j) /\ task[j].error = "No ML model available") =>
            /\ jobs[j].status = "failed"
            /\ jobs[j].error_log = "No ML model available"
            /\ task[j].done = 0
            /\ RowsOf(j) = {}
            /\ alert_tasks[j] = 0

(* --------------------------- repeat calls (C13) ------------------------ *)
\* the step is a predict_single call that repeats the call before it: the
\* same key, the same loaded model, and the entry the first call cached has
\* not expired
RepeatCall ==
    /\ reply.seq > 0 /\ reply'.seq = reply.seq + 1
    /\ reply'.store = reply.store /\ reply'.product = reply.product
    /\ reply'.date = reply.date
    /\ reply.loaded # 0 /\ reply'.loaded = reply.loaded
    /\ reply.status = 200 => CacheKey(reply.store, reply.product, reply.date) \in DOMAIN cache

\* C13: a repeat predict_single call returns what the first call returned
\* without recomputation (no history query), for every key, also one whose
\* first call returned None for want of history
C13_RepeatCallNotRecomputed ==
    [][RepeatCall => /\ reply'.predicted_demand = reply.predicted_demand
                     /\ ~reply'.prepared]_vars

(* ----------------------------- not ready (C14) ------------------------- *)
\* the request of the step found the service not ready: no active model, no
\* model loaded, or no history for the pair
NotReady ==
    /\ reply'.seq = reply.seq + 1
    /\ \/ reply'.status = 404
       \/ reply'.loaded = 0
       \/ ~salesdata[<<reply'.store, reply'.product>>].exists

\* C14: predict_single returns None (the view answers no demand) whenever the
\* service is not ready, and nothing is cached or persisted by the call
C14_NotReadyReturnsNone ==
    [][NotReady => /\ reply'.status \in {404, 500}
                   /\ reply'.predicted_demand = NoResult.demand
                   /\ cache' = cache
                   /\ predictions' = predictions]_vars

\* requests answered None: one on a service without a loaded model, or one
\* with a model loaded for a pair without history, the cache left as it was
C14_Witness ==
    /\ reply.seq > 1
    /\ reply.status = 500
    /\ reply.loaded # 0
    /\ ~salesdata[<<reply.store, reply.product>>].exists
    /\ CacheKey(reply.store, reply.product, reply.date) \notin DOMAIN cache
    /\ cache # <<>>

(* ------------------------- alert re-run (C15) -------------------------- *)
\* the condition generate_inventory_alerts detects on prediction p
Detected(p) ==
    IF InWindow(p) /\ salesdata[<<p.store, p.product>>].exists
    THEN AlertBranch(salesdata[<<p.store, p.product>>].on_hand, p.predicted_demand)
    ELSE "none"

\* C15: of generate_inventory_alerts runs made in sequence over unchanged
\* predictions and inventory, without acknowledgement, only the first creates
\* alerts: a later run creates none and changes no alert, and once the first
\* run has returned each detected (store, product, alert_type) has exactly
\* one alert
C15_RerunCreatesNothing ==
    [][/\ \A a \in alerts : a \in alerts'
       /\ \A r \in Runs : r > 1 => run'[r].alerts_created = 0
       /\ run'[1].pc = "done" =>
            \A p \in predictions :
                Detected(p) # "none" =>
                    Cardinality({a \in alerts' : /\ a.store = p.store
                                                 /\ a.product = p.product
                                                 /\ a.alert_type = Detected(p)}) = 1]_vars

\* the second run has returned after finding the alert the first run created
C15_Witness ==
    /\ run[1].alerts_created > 0
    /\ run[2].pc = "done"
    /\ run[2].last.found = 1
    /\ run[2].alerts_created = 0

(* ------------------------ acknowledgement (C16, C17) ------------------- *)
\* C16: acknowledging an alert that is acknowledged already leaves its flag,
\* its acknowledging user and its acknowledgement time as the first
\* acknowledgement set them (acknowledge_alert has one answer for a first and
\* for a repeated acknowledgement, so there is no "already acknowledged" report)
C16_RepeatAcknowledgeKeepsFirst ==
    [][\A a \in alerts :
          a.is_acknowledged =>
              \E b \in alerts' : /\ b.id = a.id
                                 /\ b.is_acknowledged
                                 /\ b.acknowledged_by = a.acknowledged_by
                                 /\ b.acknowledged_at = a.acknowledged_at]_vars

\* the alerts of the key of evaluation e
AlertsOfKey(e) ==
    {a \in alerts : a.store = e.store /\ a.product = e.product
                    /\ a.alert_type = e.branch}

\* C17: acknowledgement is terminal: an acknowledged alert stays acknowledged,
\* no step of generate_inventory_alerts changes it, and a run that detects
\* the condition when every alert of the key is acknowledged creates a fresh
\* unacknowledged alert
C17_AcknowledgedIsTerminal ==
    [][/\ \A a \in alerts :
            a.is_acknowledged =>
                /\ \E b \in alerts' : b.id = a.id /\ b.is_acknowledged
                /\ run' # run => a \in alerts'
       /\ \A r \in Runs :
            /\ ( /\ run[r].pc = "loop" /\ run'[r].todo # run[r].todo
                 /\ run'[r].last # NoEval /\ run'[r].last.branch # "none"
                 /\ \A a \in AlertsOfKey(run'[r].last) : a.is_acknowledged )
               => run'[r].pc = "create"
            /\ run[r].pc = "create" /\ run'[r].pc = "loop"
               => \E b \in alerts' \ alerts :
                     /\ ~b.is_acknowledged
                     /\ b.store = run[r].last.store
                     /\ b.product = run[r].last.product
                     /\ b.alert_type = run[r].last.branch]_vars

\* an acknowledged alert and a later, unacknowledged one of the same key
C17_Witness ==
    \E a \in alerts, b \in alerts :
        /\ a.is_acknowledged /\ ~b.is_acknowledged
        /\ a.store = b.store /\ a.product = b.product /\ a.alert_type = b.alert_type
        /\ b.id > a.id
        /\ \E r \in Runs : run[r].pc = "done" /\ run[r].alerts_created > 0
                           /\ run[r].last.found = 0

(* ------------------------- total_predictions (C18) --------------------- *)
\* the elements of set all that an instance's filter lets through
Matching(all, filter) == IF filter = {} THEN all ELSE all \cap filter

\* |stores matching| x |products matching| x |dates of the inclusive range|
ExpectedTotal(job) ==
    Cardinality(Matching(Stores, job.stores_filter))
        * Cardinality(Matching(Products, job.products_filter))
        * (job.prediction_date_end - job.prediction_date_start + 1)

\* C18: batch_predict saves total_predictions before the first item is
\* processed, equal to stores x products x dates of the job's filters and
\* inclusive range, and the save that completes the job writes
\* completed_predictions equal to that total
C18_TotalIsCartesianProduct ==
    [][\A j \in JobIds :
          /\ (task[j].pc = "plan" /\ task'[j].pc = "loop")
                => /\ jobs'[j].total_predictions = ExpectedTotal(task[j].job)
                   /\ task'[j].done = 0
          /\ task'[j].done = task[j].done + 1
                => task[j].job.total_predictions = ExpectedTotal(task[j].job)
          /\ (task[j].pc = "complete" /\ task'[j].pc = "dispatch")
                => /\ jobs'[j].completed_predictions = ExpectedTotal(task[j].job)
                   /\ jobs'[j].total_predictions = ExpectedTotal(task[j].job)]_vars

\* a job over both stores and every date is completed with all items counted
C18_Witness ==
    \E j \in JobIds :
        /\ jobs[j].status = "completed"
        /\ jobs[j].total_predictions = Len(StoreSeq) * Len(ProductSeq) * NDates
        /\ jobs[j].completed_predictions = jobs[j].total_predictions
        /\ RowsOf(j) # {}

(* -------------------------- batch boundaries (C19) --------------------- *)
\* C19: between two items, the completed_predictions the task has last
\* written to its job is less than one full batch behind the number of items
\* it has processed, also when items yield no prediction
C19_ProgressAtEveryBatchBoundary ==
    \A j \in JobIds :
        task[j].pc = "loop" =>
            task[j].done - task[j].job.completed_predictions < batch_size

(* ----------------------------- lag features (C20) ---------------------- *)
\* C20: each lag feature sales_lag_k of a prepared row is the sales of an
\* observation dated at most k days before the target date
C20_LagNotOlderThanRequested ==
    (features.pc = "done" /\ features.found) =>
        \A k \in LagKs :
            \E r \in features.history :
                /\ r.sales = features.lags[k]
                /\ features.target - r.date <= k

(* --------------------------- error list cap (C21) ---------------------- *)
\* C21: upload_status returns the first (at most 10) validation errors of
\* the upload and has_more_errors is true exactly when the upload has more
\* than 10
C21_CappedErrorsAndHasMore ==
    upload.pc = "done" =>
        LET mine == {e \in upload.errors : e.upload = 1}
        IN  /\ Len(upload.validation_errors) <= ErrorCap
            /\ \A i \in 1..Len(upload.validation_errors) :
                  /\ upload.validation_errors[i] \in mine
                  /\ Cardinality({e \in mine : e.row_number
                                      < upload.validation_errors[i].row_number}) = i - 1
            /\ upload.has_more_errors <=> Cardinality(mine) > ErrorCap

(* ------------------------- invalid date range (C22) -------------------- *)
\* C22: a submission whose date_from is later than date_to is answered with
\* the validation error (400); no BatchPredictionJob is created and no
\* batch_predict task is dispatched
C22_InvalidRangeRejected ==
    \A j \in JobIds :
        (view[j].pc # "new" /\ view[j].date_from > view[j].date_to) =>
            /\ view[j].pc = "done"
            /\ view[j].response = 400
            /\ jobs[j] = NoJob
            /\ task[j] = IdleTask

\* a submission with date_from after date_to has been answered
C22_Witness ==
    \E j \in JobIds :
        /\ view[j].pc = "done" /\ view[j].date_from > view[j].date_to
        /\ view[j].response = 400 /\ jobs[j] = NoJob

C24_WritersKeepEachOthersFields ==
    [][\A j \in JobIds :
        /\ (view[j].pc = "save" /\ view'[j].pc = "done") =>
              /\ jobs'[j].status = jobs[j].status
              /\ jobs'[j].total_predictions = jobs[j].total_predictions
              /\ jobs'[j].completed_predictions = jobs[j].completed_predictions
        /\ task'[j] # task[j] =>
              (jobs[j].celery_task_id # 0 => jobs'[j].celery_task_id # 0)]_vars

(* ---------------------- the model a row references (C25) --------------- *)
\* C25: every ForecastPrediction row written by a batch job holds the output
\* of the model the row references, also when another model is activated
\* between the submission of the job and its execution
C25_RowValueIsOfItsModel ==
    \A row \in predictions :
        row.id[1] \in JobIds =>
            row.predicted_demand =
                ModelOutput(row.model, row.store, row.product, row.prediction_date)

(* ----------------------- stockout priority (C26) ----------------------- *)
\* C26: whenever the stockout test on_hand < 1.5 x demand passes (on_hand an
\* integer, demand >= 0), max(1, floor(on_hand / max(demand, 1))) is 1, and
\* every stockout_risk alert that is created has priority critical
C26_StockoutAlwaysCritical ==
    /\ \A e \in Evaluated :
        (e.demand >= 0 /\ 2 * e.on_hand * DemandDenominator < 3 * e.demand) =>
            /\ e.branch = "stockout_risk"
            /\ Max(1, (e.on_hand * DemandDenominator)
                          \div Max(e.demand, DemandDenominator)) = 1
    /\ \A a \in alerts :
        a.alert_type = "stockout_risk" => a.priority = "critical"

\* a stockout alert just under the threshold has been created: 14 on hand
\* for a demand of 10
C26_Witness ==
    \E a \in alerts, r \in Runs :
        /\ a.alert_type = "stockout_risk" /\ a.priority = "critical"
        /\ a.current_inventory = 14
        /\ run[r].last.on_hand = 14
        /\ run[r].last.demand = 10 * DemandDenominator
        /\ run[r].last.branch = "stockout_risk"
        /\ run[r].pc \in {"loop", "done"}

(* --------------------------- price features (C27) ---------------------- *)
\* C27: of a prepared row, price is the most recent observed price of the
\* history window and price_rolling_7 is the mean of the (up to) 7 most recent
\* observed prices
C27_PriceRollingIsTrailingMean ==
    (features.pc = "done" /\ features.found) =>
        LET observed == PricesByDate(Window(features.history, features.target))
            window == Min(7, Len(observed))
        IN  /\ features.price = observed[Len(observed)]
            /\ features.price_rolling_7.window = window
            /\ features.price_rolling_7.total = SumLast(observed, window)

(* ------------------------ unknown identifiers (C28) -------------------- *)
\* C28: of a prepared row, an identifier the encoder has not seen is encoded
\* 0, and an identifier the encoder has seen keeps its fitted code, whatever
\* the other identifier is
C28_UnknownPolicyPerIdentifier ==
    (features.pc = "done" /\ features.found) =>
        LET store == Transform(features.label_encoders.store_id, features.store_id)
            sku == Transform(features.label_encoders.sku_id, features.sku_id)
        IN  /\ features.store_id_encoded = IF store = Unseen THEN 0 ELSE store
            /\ features.sku_id_encoded = IF sku = Unseen THEN 0 ELSE sku

(* --------------------------- alert dispatch (C29) ---------------------- *)
\* C29: batch_predict dispatches generate_inventory_alerts at most once per
\* run, never in a run that ends failed, and only when the run has saved its
\* job as completed and every prediction it computed (those of the final
\* partial batch included) is in the table
C29_DispatchAfterFlushAndCompletion ==
    \A j \in JobIds :
        /\ alert_tasks[j] <= 1
        /\ task[j].result = "failed" => alert_tasks[j] = 0
        /\ alert_tasks[j] > 0 =>
              /\ task[j].result = "completed"
              /\ task[j].job.status = "completed"
              /\ task[j].done = task[j].total_predictions
              /\ \A n \in 1..task[j].total_predictions :
                    LET it == Item(task[j], n)
                    IN  salesdata[<<it.store, it.product>>].exists =>
                          \E q \in predictions :
                              /\ q.model = task[j].job.model
                              /\ q.store = it.store /\ q.product = it.product
                              /\ q.prediction_date = it.date

\* the alert run has been dispatched for a job whose only prediction went out
\* with the final, partial batch
C29_Witness ==
    \E j \in JobIds :
        /\ alert_tasks[j] = 1 /\ task[j].result = "completed"
        /\ Len(task[j].predictions_batch) = 1
        /\ \E q \in RowsOf(j) : SameKey(q, task[j].predictions_batch[1])

(* --------------------------- failed retrain (C30) ---------------------- *)
\* C30: when every retrain_model run so far has ended failed, the registry is
\* as it was before them: no MLModel row has been added, the model that was
\* active is still active, and the artifact of every existing model holds the
\* content it had
C30_FailedRetrainChangesNothing ==
    (\A t \in Trainers : trainer[t].pc \in {"idle", "failed"}) =>
        /\ \A m \in mlmodels : m.id = 1 /\ m.is_active
        /\ \A m \in mlmodels : model_files[m.name] = MaxTrainers + 1

====
